---- MODULE Spec2Model ----
(***************************************************************************)
(* Model of optimization/scripts/compute_metric.py: the boundary-condition *)
(* reader (read_boundary_condition, get_inlet_conditions), the four metric *)
(* evaluators and the command-line entry point main.                       *)
(*                                                                         *)
(* Python floats are modelled as exact rationals <<n, d>> in lowest terms  *)
(* with d > 0.  A Python value is a record [t, v] with t = "float" or      *)
(* t = "None".  A call ends in an outcome [kind, val, exc, msg, payload]   *)
(* with kind = "return" or kind = "raise"; payload is the list formatted   *)
(* into the message of an exception.                                       *)
(***************************************************************************)
EXTENDS Integers, Sequences, FiniteSets, TLC

VARIABLES
    FOAMLIB_AVAILABLE,  \* module flag set by the foamlib import (lines 31-35)
    fs,                 \* boundary-condition files of the case: path -> content
    field_name,         \* read_boundary_condition: arguments
    patch_name,
    fallback_value,
    rdPc,               \* read_boundary_condition: position in the body
    field_file,         \* read_boundary_condition: locals
    patch_data,
    value,
    statted,            \* paths on which exists() has been called, in order
    rdOut,              \* outcome of read_boundary_condition
    metric,             \* the evaluator invoked
    pc,                 \* the evaluator's position in its body
    MeshRegions,        \* case_reader.MeshRegions (line 452)
    full_data,          \* servermanager.Fetch(case_reader): the block tree
    T_info,             \* cell data information of array 'T' (its range)
    integ_data,         \* cell data of Fetch(IntegrateVariables(case_reader))
    integ_point,        \* point data of the same dataset, which no evaluator reads
    loc,                \* the evaluator's local variables
    divs,               \* the divisions executed so far: site and divisor
    outcome,            \* outcome of the evaluator
    argv,               \* sys.argv[1:] of the running invocation
    caseExists,         \* case_dir.exists()
    caseFiles,          \* the names found in the case directory
    caseFiles0,         \* the names found there before the first invocation
    touched,            \* the names created by touch() and the invocations
                        \* that created them, in order
    opened,             \* FileName of the OpenFOAMReader, or no name
    requested_time,     \* main's locals
    time_values,
    use_time,
    stdout,             \* the lines written to standard output
    stderr,             \* the lines written to standard error
    exitCode,           \* the exit status, -1 while the process runs
    mainPc,             \* main's position in its body
    invocation          \* the number of the running invocation

readerVars == <<field_name, patch_name, fallback_value, rdPc, field_file,
                patch_data, value, statted, rdOut>>
caseVars == <<FOAMLIB_AVAILABLE, fs>>
meshVars == <<MeshRegions, full_data, T_info, integ_data, integ_point>>
evalVars == <<metric, pc, loc, divs, outcome>>
dirVars == <<caseExists, caseFiles, caseFiles0, touched>>
procVars == <<argv, opened, requested_time, time_values, use_time, stdout, stderr,
              exitCode, mainPc, invocation>>
mainVars == <<dirVars, procVars>>
vars == <<caseVars, readerVars, meshVars, evalVars, mainVars>>

\* ------------------------------------------------------------------ bounds

\* Longest component list stored under a boundary-condition key.
MaxComps == 2
\* Outlet areas are -1, 0 and 5, 10, ..., 5 * MaxArea.
MaxArea == 2
\* Integrals of CH4 (over the outlet, over the domain) are 0 .. MaxIntegral.
MaxIntegral == 2
\* Domain volumes are -1 .. MaxVolume.
MaxVolume == 2
\* Temperatures (range maximum, integral) are 250, 300, ..., 50 * MaxT.
MaxT == 8

\* ------------------------------------------------------- exact arithmetic

Abs(n) == IF n < 0 THEN -n ELSE n

RECURSIVE GCD(_, _)
GCD(a, b) == IF b = 0 THEN a ELSE GCD(b, a % b)

\* The rational n/d (d # 0) in lowest terms with a positive denominator.
Rat(n, d) ==
    LET g == GCD(Abs(n), Abs(d))
        s == IF d < 0 THEN -1 ELSE 1
    IN  <<(s * n) \div g, (s * d) \div g>>

RInt(n) == <<n, 1>>
RSub(a, b) == Rat(a[1] * b[2] - b[1] * a[2], a[2] * b[2])
RQuot(a, b) == Rat(a[1] * b[2], a[2] * b[1])
\* a <= b and a < b, cross-multiplied over the least common denominator.
RLe(a, b) ==
    LET g == GCD(a[2], b[2]) IN a[1] * (b[2] \div g) <= b[1] * (a[2] \div g)
RLt(a, b) ==
    LET g == GCD(a[2], b[2]) IN a[1] * (b[2] \div g) < b[1] * (a[2] \div g)
RAbs(a) == <<Abs(a[1]), a[2]>>
RIsZero(a) == a[1] = 0

\* ---------------------------------------------------------- Python values

PyFloat(r) == [t |-> "float", v |-> r]
PyNone == [t |-> "None", v |-> RInt(0)]

Return(val) ==
    [kind |-> "return", val |-> val, exc |-> "none", msg |-> "", payload |-> <<>>]
RaiseWith(exc, msg, payload) ==
    [kind |-> "raise", val |-> PyNone, exc |-> exc, msg |-> msg, payload |-> payload]
RaiseMsg(exc, msg) == RaiseWith(exc, msg, <<>>)
Raise(exc) == RaiseMsg(exc, "")
NoOutcome ==
    [kind |-> "running", val |-> PyNone, exc |-> "none", msg |-> "", payload |-> <<>>]

\* a - b and a / b on Python values: None is no operand (TypeError), and a
\* float division by zero raises ZeroDivisionError.
PySub(a, b) ==
    IF a.t # "float" \/ b.t # "float" THEN Raise("TypeError")
    ELSE Return(PyFloat(RSub(a.v, b.v)))
PyDiv(a, b) ==
    IF a.t # "float" \/ b.t # "float" THEN Raise("TypeError")
    ELSE IF RIsZero(b.v) THEN Raise("ZeroDivisionError")
    ELSE Return(PyFloat(RQuot(a.v, b.v)))

PartialFns(D, R) == UNION {[S -> R] : S \in SUBSET D}

SeqsUpTo(S, n) == UNION {[1..k -> S] : k \in 0..n}

\* ------------------------------------------------ boundary-condition files

\* A value stored under a key of a patch entry, as foamlib hands it over:
\* a number, a string, or a list of numeric components.
ScalarVal(r) == [shape |-> "scalar", num |-> r, text |-> "", comps |-> <<>>]
StrVal(s) == [shape |-> "str", num |-> RInt(0), text |-> s, comps |-> <<>>]
SeqVal(c) == [shape |-> "seq", num |-> RInt(0), text |-> "", comps |-> c]
Unset == [shape |-> "unset", num |-> RInt(0), text |-> "", comps |-> <<>>]

Dirs == {"0.orig", "0"}
Fields == {"CH4", "T"}
Patches == {"inletFuel", "inletAir"}
Keys == {"value", "inletValue"}

\* float(str): the texts of the model that Python parses as a number.
ParseFloat(s) ==
    CASE s = "350" -> [ok |-> TRUE, val |-> RInt(350)]
      [] s = "0.4" -> [ok |-> TRUE, val |-> Rat(2, 5)]
      [] OTHER -> [ok |-> FALSE, val |-> RInt(0)]

\* Python's float(x) on a stored value: a number converts, a string is
\* parsed (ValueError when it is no number), a list of several components
\* is no number (TypeError).
PyFloatCast(x) ==
    CASE x.shape = "scalar" -> Return(PyFloat(x.num))
      [] x.shape = "str" ->
            IF ParseFloat(x.text).ok
            THEN Return(PyFloat(ParseFloat(x.text).val))
            ELSE Raise("ValueError")
      [] OTHER -> Raise("TypeError")

\* FieldFile with the preference reversed: the file under 0 when it exists.
FieldFile_PreferLive(files, fname) ==
    IF <<"0", fname>> \in DOMAIN files
    THEN <<"0", fname>>
    ELSE <<"0.orig", fname>>

\* Lines 55-57: the 0.orig file when it exists, else the file under 0.
FieldFile(files, fname) ==
    IF <<"0.orig", fname>> \in DOMAIN files
    THEN <<"0.orig", fname>>
    ELSE <<"0", fname>>

\* Lines 63-71: foam_file["boundaryField"][patch_name]; a file without a
\* boundaryField section raises KeyError, a missing patch takes the early
\* return (found = FALSE).
LookupPatch(content, pname) ==
    IF "boundaryField" \notin DOMAIN content
    THEN [exc |-> "KeyError", found |-> FALSE, data |-> <<>>]
    ELSE IF pname \notin DOMAIN content["boundaryField"]
         THEN [exc |-> "none", found |-> FALSE, data |-> <<>>]
         ELSE [exc |-> "none", found |-> TRUE,
               data |-> content["boundaryField"][pname]]

\* SelectValue with the two keys tried in the other order.
SelectValue_InletFirst(pdata) ==
    IF "inletValue" \in DOMAIN pdata
    THEN [found |-> TRUE, val |-> pdata["inletValue"]]
    ELSE IF "value" \in DOMAIN pdata
         THEN [found |-> TRUE, val |-> pdata["value"]]
         ELSE [found |-> FALSE, val |-> Unset]

\* SelectValue without the final early return: a zero when no key is there.
SelectValue_DefaultZero(pdata) ==
    IF "value" \in DOMAIN pdata
    THEN [found |-> TRUE, val |-> pdata["value"]]
    ELSE IF "inletValue" \in DOMAIN pdata
         THEN [found |-> TRUE, val |-> pdata["inletValue"]]
         ELSE [found |-> TRUE, val |-> ScalarVal(RInt(0))]

\* Lines 74-79: 'value' first, then 'inletValue', else the early return.
SelectValue(pdata) ==
    IF "value" \in DOMAIN pdata
    THEN [found |-> TRUE, val |-> pdata["value"]]
    ELSE IF "inletValue" \in DOMAIN pdata
         THEN [found |-> TRUE, val |-> pdata["inletValue"]]
         ELSE [found |-> FALSE, val |-> Unset]

\* ExtractValue taking the first component of every non-empty list.
ExtractValue_FirstComponent(val) ==
    IF val.shape = "seq"
    THEN IF Len(val.comps) > 0
         THEN PyFloatCast(ScalarVal(val.comps[1]))
         ELSE Return(PyNone)
    ELSE PyFloatCast(val)

\* Lines 82-87: an iterable that is no string yields float(value[0]) when
\* it has one component and float(value) when it has more; an iterable
\* with no component matches neither branch, and control leaves the try
\* block and the function without a return statement (None).
ExtractValue(val) ==
    IF val.shape = "seq"
    THEN IF Len(val.comps) > 0
         THEN IF Len(val.comps) = 1
              THEN PyFloatCast(ScalarVal(val.comps[1]))
              ELSE PyFloatCast(val)
         ELSE Return(PyNone)
    ELSE PyFloatCast(val)

\* Lines 89-90: except Exception -> return fallback_value.
ExceptHandler(out, fb) ==
    IF out.kind = "raise" THEN Return(PyFloat(fb)) ELSE out

\* Lines 54-87: the body of the try block.
TryBody(files, fname, pname, fb) ==
    LET ff == FieldFile(files, fname)
    IN  IF ff \notin DOMAIN files
        THEN Return(PyFloat(fb))
        ELSE LET p == LookupPatch(files[ff], pname)
             IN  IF p.exc # "none" THEN Raise(p.exc)
                 ELSE IF ~p.found THEN Return(PyFloat(fb))
                 ELSE LET s == SelectValue(p.data)
                      IN  IF ~s.found
                          THEN Return(PyFloat(fb))
                          ELSE ExtractValue(s.val)

\* Lines 38-90.
read_boundary_condition(avail, files, fname, pname, fb) ==
    IF ~avail
    THEN Return(PyFloat(fb))
    ELSE ExceptHandler(TryBody(files, fname, pname, fb), fb)

\* Lines 101 and 104: the fallback constants of get_inlet_conditions.
CH4_FALLBACK == Rat(1561, 10000)
T_FALLBACK == RInt(300)

\* get_inlet_conditions with the two fallback constants exchanged.
get_inlet_conditions_SwappedFallbacks(avail, files) ==
    [CH4_inlet |->
        read_boundary_condition(avail, files, "CH4", "inletFuel", T_FALLBACK).val,
     T_inlet |->
        read_boundary_condition(avail, files, "T", "inletAir", CH4_FALLBACK).val]

\* Lines 93-109.
get_inlet_conditions(avail, files) ==
    [CH4_inlet |->
        read_boundary_condition(avail, files, "CH4", "inletFuel", CH4_FALLBACK).val,
     T_inlet |->
        read_boundary_condition(avail, files, "T", "inletAir", T_FALLBACK).val]

\* ------------------------------------------------------ names and the mesh

\* A block name is a sequence of characters.
LowerChar(c) ==
    CASE c = "A" -> "a" [] c = "B" -> "b" [] c = "C" -> "c" [] c = "D" -> "d"
      [] c = "E" -> "e" [] c = "F" -> "f" [] c = "G" -> "g" [] c = "H" -> "h"
      [] c = "I" -> "i" [] c = "J" -> "j" [] c = "K" -> "k" [] c = "L" -> "l"
      [] c = "M" -> "m" [] c = "N" -> "n" [] c = "O" -> "o" [] c = "P" -> "p"
      [] c = "Q" -> "q" [] c = "R" -> "r" [] c = "S" -> "s" [] c = "T" -> "t"
      [] c = "U" -> "u" [] c = "V" -> "v" [] c = "W" -> "w" [] c = "X" -> "x"
      [] c = "Y" -> "y" [] c = "Z" -> "z" [] OTHER -> c
\* str.lower()
Lower(s) == [i \in 1..Len(s) |-> LowerChar(s[i])]
\* sub in s
Contains(sub, s) ==
    \E i \in 1..(Len(s) - Len(sub) + 1) : SubSeq(s, i, i + Len(sub) - 1) = sub

N_outlet == <<"o", "u", "t", "l", "e", "t">>
N_Outlet == <<"O", "u", "t", "l", "e", "t">>
N_internalMesh == <<"i", "n", "t", "e", "r", "n", "a", "l", "M", "e", "s", "h">>
N_boundary == <<"b", "o", "u", "n", "d", "a", "r", "y">>
N_inletAir == <<"i", "n", "l", "e", "t", "A", "i", "r">>
N_inletFuel == <<"i", "n", "l", "e", "t", "F", "u", "e", "l">>
N_patch_inletAir == <<"p", "a", "t", "c", "h", "/", "i", "n", "l", "e", "t", "A", "i", "r">>
N_patch_inletFuel == <<"p", "a", "t", "c", "h", "/", "i", "n", "l", "e", "t", "F", "u", "e", "l">>
N_patch_outlet == <<"p", "a", "t", "c", "h", "/", "o", "u", "t", "l", "e", "t">>
N_unnamed == <<"u", "n", "n", "a", "m", "e", "d">>
N_none == <<>>

\* Line 452: the regions main asks the reader for.
MainMeshRegions ==
    <<N_internalMesh, N_patch_inletAir, N_patch_inletFuel, N_patch_outlet>>

\* A dataset: the names of its cell and point arrays, and what
\* vtkIntegrateAttributes puts out for it (array name -> value at index 0).
Dataset(cell, point, icell, ipoint) ==
    [cell |-> cell, point |-> point, icell |-> icell, ipoint |-> ipoint]
NoArrays == [n \in {} |-> RInt(0)]
EmptyDataset == Dataset({}, {}, NoArrays, NoArrays)

\* A block of the fetched tree: kind is "dataset", "multiblock" or "null"
\* (GetBlock gives None); meta tells whether GetMetaData gives the name.
Leaf(name, ds) ==
    [name |-> name, meta |-> TRUE, kind |-> "dataset", data |-> ds, subs |-> <<>>]
NullBlock(name) ==
    [name |-> name, meta |-> TRUE, kind |-> "null", data |-> EmptyDataset,
     subs |-> <<>>]
Container(name, subs) ==
    [name |-> name, meta |-> TRUE, kind |-> "multiblock", data |-> EmptyDataset,
     subs |-> subs]
NoBlock == NullBlock(N_none)

\* Lines 151 and 161: the block's name, or "unnamed" without meta data.
BlockName(b) == IF b.meta THEN b.name ELSE N_unnamed

\* Lines 133-137: the first selected region whose name contains 'outlet'.
RECURSIVE FirstOutletRegion(_, _)
FirstOutletRegion(blocks, i) ==
    IF i > Len(blocks) THEN [found |-> FALSE, name |-> N_none, index |-> 0]
    ELSE IF Contains(N_outlet, Lower(blocks[i]))
         THEN [found |-> TRUE, name |-> blocks[i], index |-> i - 1]
         ELSE FirstOutletRegion(blocks, i + 1)

\* FirstOutletSub that passes over the empty sub-blocks.
RECURSIVE FirstOutletSub_SkipEmpty(_, _)
FirstOutletSub_SkipEmpty(subs, j) ==
    IF j > Len(subs) THEN NoBlock
    ELSE IF Contains(N_outlet, Lower(BlockName(subs[j]))) /\ subs[j].kind # "null"
         THEN subs[j]
         ELSE FirstOutletSub_SkipEmpty(subs, j + 1)

\* Lines 159-164: the first sub-block whose name contains 'outlet'.
RECURSIVE FirstOutletSub(_, _)
FirstOutletSub(subs, j) ==
    IF j > Len(subs) THEN NoBlock
    ELSE IF Contains(N_outlet, Lower(BlockName(subs[j])))
         THEN subs[j]
         ELSE FirstOutletSub(subs, j + 1)

\* Lines 148-166: the search of the fetched tree.  The result is the value
\* of outlet_block after the loop (kind "null" stands for None).
RECURSIVE FindOutletBlock(_, _, _)
FindOutletBlock(tree, name, i) ==
    IF i > Len(tree) THEN NoBlock
    ELSE IF Contains(Lower(name), Lower(BlockName(tree[i])))
         THEN tree[i]
         ELSE IF tree[i].kind = "multiblock"
                    /\ FirstOutletSub(tree[i].subs, 1).kind # "null"
              THEN FirstOutletSub(tree[i].subs, 1)
              ELSE FindOutletBlock(tree, name, i + 1)

\* Lines 175-177 (195-197, 202-204): cell data first, then point data.
HasArray(ds, n) == n \in ds.cell \/ n \in ds.point
HasIntegrated(ds, n) == n \in DOMAIN ds.icell \/ n \in DOMAIN ds.ipoint
Integrated(ds, n) == IF n \in DOMAIN ds.icell THEN ds.icell[n] ELSE ds.ipoint[n]

\* ------------------------------------------------------- metric evaluators

Division(site, divisor) == [site |-> site, divisor |-> divisor]
Computed(out, ds) == [out |-> out, divs |-> ds]

\* CE_Average with the guard area < 0.
CE_Average_StrictGuard(ch4_integrated, area) ==
    IF RLt(area.v, RInt(0))
    THEN Computed(RaiseMsg("ValueError", "Invalid outlet area"), <<>>)
    ELSE Computed(PyDiv(ch4_integrated, area), <<Division("ch4_outlet", area)>>)

\* Lines 213-217: the outlet average, or the error for an area <= 0.
CE_Average(ch4_integrated, area) ==
    IF RLe(area.v, RInt(0))
    THEN Computed(RaiseMsg("ValueError", "Invalid outlet area"), <<>>)
    ELSE Computed(PyDiv(ch4_integrated, area), <<Division("ch4_outlet", area)>>)

\* Line 220: efficiency = 1.0 - (ch4_outlet / ch4_inlet).
CE_Efficiency(ch4_outlet, ch4_inlet) ==
    LET q == PyDiv(ch4_outlet, ch4_inlet)
    IN  Computed(IF q.kind = "raise" THEN q ELSE PySub(PyFloat(RInt(1)), q.val),
                 <<Division("efficiency", ch4_inlet)>>)

\* Lines 269-272: the domain average, or the error for a volume <= 0.
DA_Average(ch4_integrated, volume) ==
    IF RLe(volume.v, RInt(0))
    THEN Computed(RaiseMsg("ValueError", "Invalid volume"), <<>>)
    ELSE Computed(PyDiv(ch4_integrated, volume), <<Division("ch4_avg", volume)>>)

\* Lines 319-322.
PF_Average(T_integrated, volume) ==
    IF RLe(volume.v, RInt(0))
    THEN Computed(RaiseMsg("ValueError", "Invalid volume"), <<>>)
    ELSE Computed(PyDiv(T_integrated, volume), <<Division("T_avg", volume)>>)

\* PatternFactor with the guard denominator < 0.
PatternFactor_StrictGuard(T_max, T_avg, T_inlet) ==
    LET denominator == PySub(T_avg, T_inlet)
    IN  IF denominator.kind = "raise" THEN Computed(denominator, <<>>)
        ELSE IF RLt(denominator.val.v, RInt(0))
        THEN Computed(Return(PyFloat(RInt(999))), <<>>)
        ELSE Computed(PyDiv(PySub(T_max, T_avg).val, denominator.val),
                      <<Division("PF", denominator.val)>>)

\* Lines 329-337: the penalty 999.0 for a denominator <= 0, else the ratio.
PatternFactor(T_max, T_avg, T_inlet) ==
    LET denominator == PySub(T_avg, T_inlet)
    IN  IF denominator.kind = "raise" THEN Computed(denominator, <<>>)
        ELSE IF RLe(denominator.val.v, RInt(0))
        THEN Computed(Return(PyFloat(RInt(999))), <<>>)
        ELSE Computed(PyDiv(PySub(T_max, T_avg).val, denominator.val),
                      <<Division("PF", denominator.val)>>)

\* TR_Average without the check of the volume.
TR_Average_Unchecked(T_integrated, volume) ==
    Computed(PyDiv(T_integrated, volume), <<Division("T_avg", volume)>>)

\* Lines 382-385.
TR_Average(T_integrated, volume) ==
    IF RLe(volume.v, RInt(0))
    THEN Computed(RaiseMsg("ValueError", "Invalid volume"), <<>>)
    ELSE Computed(PyDiv(T_integrated, volume), <<Division("T_avg", volume)>>)

\* TemperatureRise with the guard denominator < 0.
TemperatureRise_StrictGuard(T_max, T_avg, T_inlet) ==
    LET denominator == PySub(T_max, T_inlet)
    IN  IF denominator.kind = "raise" THEN Computed(denominator, <<>>)
        ELSE IF RLt(denominator.val.v, RInt(0))
        THEN Computed(Return(PyFloat(RInt(0))), <<>>)
        ELSE Computed(PyDiv(PySub(T_avg, T_inlet).val, denominator.val),
                      <<Division("eta_T", denominator.val)>>)

\* Lines 392-399: the floor 0.0 for a denominator <= 0, else the ratio.
TemperatureRise(T_max, T_avg, T_inlet) ==
    LET denominator == PySub(T_max, T_inlet)
    IN  IF denominator.kind = "raise" THEN Computed(denominator, <<>>)
        ELSE IF RLe(denominator.val.v, RInt(0))
        THEN Computed(Return(PyFloat(RInt(0))), <<>>)
        ELSE Computed(PyDiv(PySub(T_avg, T_inlet).val, denominator.val),
                      <<Division("eta_T", denominator.val)>>)

\* The cell data information of 'T': absent, or the maximum of its range.
NoInfo == [present |-> FALSE, max |-> RInt(0)]
Info(max) == [present |-> TRUE, max |-> max]

Metrics ==
    {"combustion_efficiency", "ch4_domain_average", "pattern_factor",
     "temperature_rise"}

NoLocals ==
    [ch4_inlet |-> PyNone, outlet_block_name |-> N_none, outlet_block |-> NoBlock,
     ch4_integrated |-> PyNone, area |-> PyNone, ch4_outlet |-> PyNone,
     T_max |-> PyNone, T_integrated |-> PyNone, volume |-> PyNone,
     T_avg |-> PyNone, T_inlet |-> PyNone]

frame == <<caseVars, readerVars, meshVars, metric, mainVars>>

Goto(next, newloc) ==
    /\ pc' = next
    /\ loc' = newloc
    /\ UNCHANGED <<divs, outcome, frame>>

Finish(out) ==
    /\ pc' = "done"
    /\ outcome' = out
    /\ UNCHANGED <<loc, divs, frame>>

\* A step that computes: its divisions are logged, an exception ends the
\* evaluator, and a value goes on to `next` (or is returned, next = "done").
Compute(c, next, newloc) ==
    /\ divs' = divs \o c.divs
    /\ IF c.out.kind = "raise" \/ next = "done"
       THEN pc' = "done" /\ outcome' = c.out /\ UNCHANGED loc
       ELSE pc' = next /\ loc' = newloc /\ UNCHANGED outcome
    /\ UNCHANGED frame

\* get_combustion_efficiency, lines 119-121.
CE_Inlet ==
    /\ pc = "ce_inlet"
    /\ Goto("ce_region",
            [loc EXCEPT !.ch4_inlet =
                get_inlet_conditions(FOAMLIB_AVAILABLE, fs).CH4_inlet])

\* Lines 125-140.
CE_Region ==
    /\ pc = "ce_region"
    /\ LET r == FirstOutletRegion(MeshRegions, 1)
       IN  IF ~r.found
           THEN Finish(RaiseWith("ValueError", "Outlet patch not found", MeshRegions))
           ELSE Goto("ce_block", [loc EXCEPT !.outlet_block_name = r.name])

\* Lines 142-169.
CE_Block ==
    /\ pc = "ce_block"
    /\ LET b == FindOutletBlock(full_data, loc.outlet_block_name, 1)
       IN  IF b.kind = "null"
           THEN Finish(RaiseMsg("ValueError", "Could not find outlet block"))
           ELSE Goto("ce_array", [loc EXCEPT !.outlet_block = b])

\* Lines 171-182.  A composite block has no GetCellData.
CE_Array ==
    /\ pc = "ce_array"
    /\ IF loc.outlet_block.kind = "multiblock"
       THEN Finish(Raise("AttributeError"))
       ELSE IF ~HasArray(loc.outlet_block.data, "CH4")
            THEN Finish(RaiseMsg("ValueError", "CH4 array not found at outlet"))
            ELSE Goto("ce_integrate", loc)

\* Lines 184-211.
CE_Integrate ==
    /\ pc = "ce_integrate"
    /\ LET ds == loc.outlet_block.data
       IN  IF ~HasIntegrated(ds, "CH4")
           THEN Finish(RaiseMsg("ValueError", "failed to integrate CH4"))
           ELSE IF ~HasIntegrated(ds, "Area")
                THEN Finish(RaiseMsg("ValueError", "failed to compute Area"))
                ELSE Goto("ce_average",
                          [loc EXCEPT
                              !.ch4_integrated = PyFloat(Integrated(ds, "CH4")),
                              !.area = PyFloat(Integrated(ds, "Area"))])

\* Lines 213-217.
CE_OutletAverage ==
    /\ pc = "ce_average"
    /\ LET c == CE_Average(loc.ch4_integrated, loc.area)
       IN  Compute(c, "ce_efficiency", [loc EXCEPT !.ch4_outlet = c.out.val])

\* Lines 219-222.
CE_Return ==
    /\ pc = "ce_efficiency"
    /\ Compute(CE_Efficiency(loc.ch4_outlet, loc.ch4_inlet), "done", loc)

\* get_ch4_domain_average, lines 249-266.
DA_Integrate ==
    /\ pc = "da_integrate"
    /\ IF "CH4" \notin DOMAIN integ_data
       THEN Finish(RaiseMsg("ValueError", "CH4 array not found in integrated data"))
       ELSE IF "Volume" \notin DOMAIN integ_data
            THEN Finish(RaiseMsg("ValueError",
                                 "Volume array not found in integrated data"))
            ELSE Goto("da_average",
                      [loc EXCEPT !.ch4_integrated = PyFloat(integ_data["CH4"]),
                                  !.volume = PyFloat(integ_data["Volume"])])

\* Lines 268-274.
DA_Return ==
    /\ pc = "da_average"
    /\ Compute(DA_Average(loc.ch4_integrated, loc.volume), "done", loc)

\* get_pattern_factor, lines 287-297.
PF_Range ==
    /\ pc = "pf_range"
    /\ IF ~T_info.present
       THEN Finish(RaiseMsg("ValueError",
                            "'T' not found in cell data information"))
       ELSE Goto("pf_integrate", [loc EXCEPT !.T_max = PyFloat(T_info.max)])

\* Lines 299-316.
PF_Integrate ==
    /\ pc = "pf_integrate"
    /\ IF "T" \notin DOMAIN integ_data
       THEN Finish(RaiseMsg("ValueError", "'T' not found in integrated data"))
       ELSE IF "Volume" \notin DOMAIN integ_data
            THEN Finish(RaiseMsg("ValueError",
                                 "Volume array not found in integrated data"))
            ELSE Goto("pf_average",
                      [loc EXCEPT !.T_integrated = PyFloat(integ_data["T"]),
                                  !.volume = PyFloat(integ_data["Volume"])])

\* Lines 318-322.
PF_VolumeAverage ==
    /\ pc = "pf_average"
    /\ LET c == PF_Average(loc.T_integrated, loc.volume)
       IN  Compute(c, "pf_inlet", [loc EXCEPT !.T_avg = c.out.val])

\* Lines 324-326.
PF_Inlet ==
    /\ pc = "pf_inlet"
    /\ Goto("pf_factor",
            [loc EXCEPT !.T_inlet =
                get_inlet_conditions(FOAMLIB_AVAILABLE, fs).T_inlet])

\* Lines 328-337.
PF_Return ==
    /\ pc = "pf_factor"
    /\ Compute(PatternFactor(loc.T_max, loc.T_avg, loc.T_inlet), "done", loc)

\* get_temperature_rise_efficiency, lines 350-360.
TR_Range ==
    /\ pc = "tr_range"
    /\ IF ~T_info.present
       THEN Finish(RaiseMsg("ValueError",
                            "'T' not found in cell data information"))
       ELSE Goto("tr_integrate", [loc EXCEPT !.T_max = PyFloat(T_info.max)])

\* Lines 362-379.
TR_Integrate ==
    /\ pc = "tr_integrate"
    /\ IF "T" \notin DOMAIN integ_data
       THEN Finish(RaiseMsg("ValueError", "'T' not found in integrated data"))
       ELSE IF "Volume" \notin DOMAIN integ_data
            THEN Finish(RaiseMsg("ValueError",
                                 "Volume array not found in integrated data"))
            ELSE Goto("tr_average",
                      [loc EXCEPT !.T_integrated = PyFloat(integ_data["T"]),
                                  !.volume = PyFloat(integ_data["Volume"])])

\* Lines 381-385.
TR_VolumeAverage ==
    /\ pc = "tr_average"
    /\ LET c == TR_Average(loc.T_integrated, loc.volume)
       IN  Compute(c, "tr_inlet", [loc EXCEPT !.T_avg = c.out.val])

\* Lines 387-389.
TR_Inlet ==
    /\ pc = "tr_inlet"
    /\ Goto("tr_rise",
            [loc EXCEPT !.T_inlet =
                get_inlet_conditions(FOAMLIB_AVAILABLE, fs).T_inlet])

\* Lines 391-399.
TR_Return ==
    /\ pc = "tr_rise"
    /\ Compute(TemperatureRise(loc.T_max, loc.T_avg, loc.T_inlet), "done", loc)

\* Line 483: metrics[metric_name](case_reader, case_dir).
Entry(m) ==
    CASE m = "combustion_efficiency" -> "ce_inlet"
      [] m = "ch4_domain_average" -> "da_integrate"
      [] m = "pattern_factor" -> "pf_range"
      [] m = "temperature_rise" -> "tr_range"

\* ------------------------------------------------- main: pure operations

\* str.startswith(prefix)
StartsWith(prefix, s) ==
    Len(prefix) <= Len(s) /\ SubSeq(s, 1, Len(prefix)) = prefix

\* s.split(sep)[1] for a string holding the one-character separator: the
\* text between the first separator and the next one (or the end).
SplitSecond(s, sep) ==
    LET at == {i \in 1..Len(s) : s[i] = sep}
        first == CHOOSE i \in at : \A j \in at : i <= j
        rest == {i \in at : i > first}
        stop == IF rest = {} THEN Len(s) + 1
                ELSE CHOOSE i \in rest : \A j \in rest : i <= j
    IN  SubSeq(s, first + 1, stop - 1)

IsDigit(c) == c \in {"0", "1", "2", "3", "4", "5", "6", "7", "8", "9"}
DigitVal(c) ==
    CASE c = "0" -> 0 [] c = "1" -> 1 [] c = "2" -> 2 [] c = "3" -> 3
      [] c = "4" -> 4 [] c = "5" -> 5 [] c = "6" -> 6 [] c = "7" -> 7
      [] c = "8" -> 8 [] c = "9" -> 9

RECURSIVE Pow10(_)
Pow10(k) == IF k = 0 THEN 1 ELSE 10 * Pow10(k - 1)

\* The number written by the digits of s, its other characters skipped.
RECURSIVE DigitsValue(_, _, _)
DigitsValue(s, i, acc) ==
    IF i > Len(s) THEN acc
    ELSE DigitsValue(s, i + 1,
                     IF IsDigit(s[i]) THEN 10 * acc + DigitVal(s[i]) ELSE acc)

\* float(text) for an unsigned decimal literal: digits with at most one
\* point.  Every other text of the model is no number (ValueError).
FloatOfText(s) ==
    LET dots == {i \in 1..Len(s) : s[i] = "."}
        digits == {i \in 1..Len(s) : IsDigit(s[i])}
        places == IF dots = {} THEN 0 ELSE Len(s) - (CHOOSE i \in dots : TRUE)
    IN  IF digits # {} /\ Cardinality(dots) <= 1 /\ dots \cup digits = 1..Len(s)
        THEN Return(PyFloat(Rat(DigitsValue(s, 1, 0), Pow10(places))))
        ELSE Raise("ValueError")

N_time_flag == <<"-", "-", "t", "i", "m", "e", "=">>

\* Lines 423-429: the optional third argument.  The result tells whether
\* the process exits at line 429, and else the outcome of line 427.
ParseTimeArg(time_arg) ==
    IF StartsWith(N_time_flag, time_arg)
    THEN [exits |-> FALSE, out |-> FloatOfText(SplitSecond(time_arg, "="))]
    ELSE [exits |-> TRUE, out |-> NoOutcome]

\* Line 413: sys.argv holds the script and the arguments.
BadArgCount(args) == Len(args) + 1 < 3 \/ Len(args) + 1 > 4

\* CaseDirMissing that accepts every directory.
CaseDirMissing_Never(exists) == FALSE

\* Line 431.
CaseDirMissing(exists) == ~exists

\* Lines 406-411: the keys of the dictionary, in order.
MetricNames ==
    <<"combustion_efficiency", "ch4_domain_average", "pattern_factor",
      "temperature_rise">>

\* UnknownMetric that accepts every name.
UnknownMetric_Never(name) == FALSE
\* Line 434.
UnknownMetric(name) == \A i \in 1..Len(MetricNames) : MetricNames[i] # name

N_processor == <<"p", "r", "o", "c", "e", "s", "s", "o", "r">>
N_processor0 == N_processor \o <<"0">>
N_case_foam == <<"c", "a", "s", "e", ".", "f", "o", "a", "m">>
N_constant == <<"c", "o", "n", "s", "t", "a", "n", "t">>

\* Line 438: case_dir.glob("processor*").
ProcessorDirs(names) == {n \in names : StartsWith(N_processor, n)}

\* MarkerNeeded that asks for the marker on every open.
MarkerNeeded_Always(names) == TRUE
\* Line 446: the marker is created when it does not exist.
MarkerNeeded(names) == N_case_foam \notin names

\* Line 462.
NoTimeSteps(times) == Len(times) = 0

\* Line 469: min(available_times, key=...) is the first entry of the least
\* distance to the requested time.
RECURSIVE ClosestFrom(_, _, _, _)
ClosestFrom(times, r, i, best) ==
    IF i > Len(times) THEN best
    ELSE ClosestFrom(times, r, i + 1,
                     IF RLt(RAbs(RSub(times[i], r)), RAbs(RSub(best, r)))
                     THEN times[i] ELSE best)
\* ClosestTime that takes the first entry of the series.
ClosestTime_First(times, r) == times[1]
ClosestTime(times, r) == ClosestFrom(times, r, 2, times[1])

\* Line 471: the tolerance 1e-6.
TIME_TOLERANCE == Rat(1, 1000000)
TimeMismatch(closest, r) == RLt(TIME_TOLERANCE, RAbs(RSub(closest, r)))

\* DefaultTime that takes the first entry of the series.
DefaultTime_First(times) == times[1]
\* Line 477: time_values[-1].
DefaultTime(times) == times[Len(times)]

\* Lines 466-477: the time used and whether the warning is printed.
SelectTime(times, requested) ==
    IF requested.t # "None"
    THEN [use |-> ClosestTime(times, requested.v),
          warn |-> TimeMismatch(ClosestTime(times, requested.v), requested.v)]
    ELSE [use |-> DefaultTime(times), warn |-> FALSE]

\* A line of output: what it is, and what it was formatted from.
Line(tag, exc, msg, payload, val) ==
    [tag |-> tag, exc |-> exc, msg |-> msg, payload |-> payload, val |-> val]
\* Lines 414-416, on sys.stderr.
UsageLines ==
    <<Line("usage", "none", "", <<>>, PyNone),
      Line("available", "none", "", MetricNames, PyNone),
      Line("optional", "none", "", <<>>, PyNone)>>
\* Line 472, on sys.stderr.
WarningLines == <<Line("warning", "none", "", <<>>, PyNone)>>
\* Lines 489-491, on sys.stderr: the error line and the traceback.
ErrorLines(e) ==
    <<Line("error", e.exc, e.msg, e.payload, PyNone),
      Line("traceback", e.exc, e.msg, e.payload, PyNone)>>
\* ResultLines with a label line before the value.
ResultLines_Labelled(val) ==
    <<Line("label", "none", "", <<>>, PyNone), Line("value", "none", "", <<>>, val)>>
\* Line 486, on sys.stdout.
ResultLines(val) == <<Line("value", "none", "", <<>>, val)>>

NoName == <<>>

\* main is not running: the state of its variables.
MainIdle ==
    /\ argv = <<>>
    /\ caseExists = TRUE
    /\ caseFiles = {}
    /\ caseFiles0 = {}
    /\ touched = <<>>
    /\ opened = NoName
    /\ requested_time = PyNone
    /\ time_values = <<>>
    /\ use_time = PyNone
    /\ stdout = <<>>
    /\ stderr = <<>>
    /\ exitCode = -1
    /\ mainPc = "off"
    /\ invocation = 0

\* --------------------------------------- read_boundary_condition, stepwise

\* Numbers and texts found in the files of the reader's specification.
RdNums == {Rat(2, 5), RInt(350)}
RdTexts == {"350", "$internalField"}
StoredVals ==
    {ScalarVal(r) : r \in RdNums} \cup {StrVal(s) : s \in RdTexts}
        \cup {SeqVal(c) : c \in SeqsUpTo(RdNums, MaxComps)}
Entries == PartialFns(Keys, StoredVals)

\* The entry of every patch other than the one asked for.
OtherEntry == [k \in {"value"} |-> ScalarVal(RInt(777))]
\* The entry of the asked patch in the small family of files under 0.
LiveEntry == [k \in {"value"} |-> ScalarVal(RInt(500))]

BoundaryFields(patch, entries) ==
    UNION {{[q \in S |-> IF q = patch THEN e ELSE OtherEntry] :
                e \in IF patch \in S THEN entries ELSE {OtherEntry}} :
           S \in SUBSET Patches}
Contents(patch, entries) ==
    {[k \in {} |-> k]}
        \cup {[k \in {"boundaryField"} |-> bf] : bf \in BoundaryFields(patch, entries)}

\* The file system with the given optional files (a set of at most one
\* content each) of the asked field, and an optional file of the other field.
MkFs(field, orig, live, decoy) ==
    LET other == CHOOSE f \in Fields : f # field
        dom == {<<"0.orig", field>> : x \in orig} \cup {<<"0", field>> : x \in live}
                   \cup {<<"0.orig", other>> : x \in decoy}
    IN  [p \in dom |->
            IF p = <<"0.orig", field>> THEN CHOOSE x \in orig : TRUE
            ELSE IF p = <<"0", field>> THEN CHOOSE x \in live : TRUE
            ELSE CHOOSE x \in decoy : TRUE]

Optional(S) == {{}} \cup {{x} : x \in S}

\* Either the 0.orig file takes every content and the file under 0 a few,
\* or the 0.orig file is absent and the file under 0 takes every content.
RdFileSystems(field, patch) ==
    {MkFs(field, {o}, l, d) :
        o \in Contents(patch, Entries),
        l \in Optional(Contents(patch, {LiveEntry})),
        d \in Optional({[k \in {"boundaryField"} |-> [q \in Patches |-> OtherEntry]]})}
    \cup
    {MkFs(field, {}, l, d) :
        l \in Optional(Contents(patch, Entries)),
        d \in Optional({[k \in {"boundaryField"} |-> [q \in Patches |-> OtherEntry]]})}

\* The two calls get_inlet_conditions makes (lines 101 and 104).
Calls ==
    {[field |-> "CH4", patch |-> "inletFuel", fallback |-> CH4_FALLBACK],
     [field |-> "T", patch |-> "inletAir", fallback |-> T_FALLBACK]}

NoPath == <<"", "">>

InitRead ==
    /\ FOAMLIB_AVAILABLE \in BOOLEAN
    /\ \E c \in Calls :
        /\ field_name = c.field
        /\ patch_name = c.patch
        /\ fallback_value = c.fallback
        /\ fs \in RdFileSystems(c.field, c.patch)
    /\ rdPc = "enter"
    /\ field_file = NoPath
    /\ patch_data = [k \in {} |-> k]
    /\ value = Unset
    /\ statted = <<>>
    /\ rdOut = NoOutcome
    /\ metric = "none"
    /\ pc = "idle"
    /\ MeshRegions = MainMeshRegions
    /\ full_data = <<>>
    /\ T_info = NoInfo
    /\ integ_data = NoArrays
    /\ integ_point = NoArrays
    /\ loc = NoLocals
    /\ divs = <<>>
    /\ outcome = NoOutcome
    /\ MainIdle

RdFinish(out) ==
    /\ rdOut' = out
    /\ rdPc' = "done"

\* Lines 51-52.
RBC_Enter ==
    /\ rdPc = "enter"
    /\ IF ~FOAMLIB_AVAILABLE
       THEN RdFinish(Return(PyFloat(fallback_value)))
       ELSE rdPc' = "resolve" /\ UNCHANGED rdOut
    /\ UNCHANGED <<caseVars, meshVars, evalVars, mainVars, field_name, patch_name, fallback_value,
                   field_file, patch_data, value, statted>>

\* Lines 55-60.
RBC_Resolve ==
    /\ rdPc = "resolve"
    /\ field_file' = FieldFile(fs, field_name)
    /\ statted' =
        <<<<"0.orig", field_name>>>> \o <<field_file'>>
    /\ IF field_file' \notin DOMAIN fs
       THEN RdFinish(Return(PyFloat(fallback_value)))
       ELSE rdPc' = "open" /\ UNCHANGED rdOut
    /\ UNCHANGED <<caseVars, meshVars, evalVars, mainVars, field_name, patch_name, fallback_value,
                   patch_data, value>>

\* Lines 63-71.
RBC_Open ==
    /\ rdPc = "open"
    /\ LET p == LookupPatch(fs[field_file], patch_name)
       IN  IF p.exc # "none"
           THEN RdFinish(ExceptHandler(Raise(p.exc), fallback_value))
                /\ UNCHANGED patch_data
           ELSE IF ~p.found
                THEN RdFinish(Return(PyFloat(fallback_value)))
                     /\ UNCHANGED patch_data
                ELSE /\ patch_data' = p.data
                     /\ rdPc' = "select"
                     /\ UNCHANGED rdOut
    /\ UNCHANGED <<caseVars, meshVars, evalVars, mainVars, field_name, patch_name, fallback_value,
                   field_file, value, statted>>

\* Lines 73-79.
RBC_Select ==
    /\ rdPc = "select"
    /\ LET s == SelectValue(patch_data)
       IN  IF ~s.found
           THEN RdFinish(Return(PyFloat(fallback_value))) /\ UNCHANGED value
           ELSE /\ value' = s.val
                /\ rdPc' = "extract"
                /\ UNCHANGED rdOut
    /\ UNCHANGED <<caseVars, meshVars, evalVars, mainVars, field_name, patch_name, fallback_value,
                   field_file, patch_data, statted>>

\* Lines 81-90.
RBC_Extract ==
    /\ rdPc = "extract"
    /\ RdFinish(ExceptHandler(ExtractValue(value), fallback_value))
    /\ UNCHANGED <<caseVars, meshVars, evalVars, mainVars, field_name, patch_name, fallback_value,
                   field_file, patch_data, value, statted>>

NextRead ==
    \/ RBC_Enter
    \/ RBC_Resolve
    \/ RBC_Open
    \/ RBC_Select
    \/ RBC_Extract

SpecRead == InitRead /\ [][NextRead]_vars

\* The stepwise body and the function as one expression agree.
RdStepsAgree ==
    rdPc = "done" =>
        rdOut = read_boundary_condition(FOAMLIB_AVAILABLE, fs, field_name,
                                        patch_name, fallback_value)

\* ------------------------------------------------- the evaluators' inputs

Areas == {RInt(-1), RInt(0)} \cup {RInt(5 * k) : k \in 1..MaxArea}
Integrals == {RInt(k) : k \in 0..MaxIntegral}
Volumes == {RInt(k) : k \in (-1)..MaxVolume}
TGrid == {RInt(50 * k) : k \in 5..MaxT}

\* The outlet patch: CH4 as cell data, as point data or not at all; the
\* integration output with or without CH4 and with or without Area.
OutletDataset(at, integrated, i, area) ==
    Dataset(IF at = "cell" THEN {"CH4", "T"} ELSE {"T"},
            IF at = "point" THEN {"CH4"} ELSE {},
            [n \in (IF at = "cell" /\ integrated THEN {"CH4"} ELSE {})
                    \cup {"Area" : a \in area} |->
                IF n = "CH4" THEN i ELSE CHOOSE a \in area : TRUE],
            [n \in (IF at = "point" /\ integrated THEN {"CH4"} ELSE {}) |-> i])
OutletDatasets ==
    {OutletDataset(at, integrated, i, area) :
        at \in {"cell", "point", "none"}, integrated \in BOOLEAN,
        i \in Integrals, area \in Optional(Areas)}
PlainOutlet == OutletDataset("cell", TRUE, RInt(2), {RInt(10)})

\* The tree the OpenFOAM reader gives: the interior, then the container of
\* the patches.
PatchTree(patches) ==
    <<Leaf(N_internalMesh, EmptyDataset), Container(N_boundary, patches)>>
Inlets == <<Leaf(N_inletAir, EmptyDataset), Leaf(N_inletFuel, EmptyDataset)>>
\* Trees with several blocks named after the outlet, some of them empty.
SecondOutlet == OutletDataset("cell", TRUE, RInt(1), {RInt(5)})
OrderTrees ==
    {PatchTree(<<Leaf(N_outlet, PlainOutlet), Leaf(N_Outlet, SecondOutlet)>>),
     PatchTree(<<NullBlock(N_outlet), Leaf(N_Outlet, SecondOutlet)>>),
     <<Container(N_boundary, <<NullBlock(N_outlet)>>),
       Container(N_boundary, <<Leaf(N_outlet, SecondOutlet)>>)>>,
     <<Leaf(N_patch_outlet, PlainOutlet),
       Container(N_boundary, <<Leaf(N_outlet, SecondOutlet)>>)>>,
     <<Container(N_boundary, <<Leaf(N_outlet, SecondOutlet)>>),
       Leaf(N_patch_outlet, PlainOutlet)>>,
     <<NullBlock(N_patch_outlet),
       Container(N_boundary, <<Leaf(N_outlet, SecondOutlet)>>)>>}
Trees ==
    {PatchTree(Inlets \o <<Leaf(N_outlet, ds)>>) : ds \in OutletDatasets}
    \cup {PatchTree(Inlets),
          PatchTree(Inlets \o <<NullBlock(N_outlet)>>),
          PatchTree(<<Leaf(N_Outlet, PlainOutlet)>> \o Inlets),
          <<Leaf(N_internalMesh, EmptyDataset), Leaf(N_patch_outlet, PlainOutlet)>>,
          <<Leaf(N_internalMesh, EmptyDataset), Leaf(N_outlet, PlainOutlet)>>,
          <<Leaf(N_internalMesh, EmptyDataset),
            Container(N_patch_outlet, <<Leaf(N_inletAir, EmptyDataset)>>)>>}
    \cup OrderTrees

\* Case files in which at most the 0.orig file of one field exists, with the
\* given values under the 'value' key of the asked patch.
InletFiles(field, patch, vals) ==
    {MkFs(field, o, {}, {}) :
        o \in Optional({[k \in {"boundaryField"} |->
                            [q \in {patch} |-> [key \in {"value"} |-> v]]] :
                        v \in vals})}

CH4InletVals == {ScalarVal(Rat(2, 5)), ScalarVal(RInt(0)), SeqVal(<<>>)}
TInletVals == {ScalarVal(RInt(350)), SeqVal(<<>>)}

IntegratedArrays(names, vol, q) ==
    [n \in names \cup {"Volume" : x \in vol} |->
        IF n = "Volume" THEN CHOOSE x \in vol : TRUE ELSE q]

Init ==
    /\ FOAMLIB_AVAILABLE \in BOOLEAN
    /\ MeshRegions = MainMeshRegions
    /\ metric \in Metrics
    /\ \/ /\ metric = "combustion_efficiency"
          /\ fs \in InletFiles("CH4", "inletFuel", CH4InletVals)
          /\ full_data \in Trees
          /\ T_info = NoInfo
          /\ integ_data = NoArrays
          /\ integ_point = NoArrays
       \/ /\ metric = "ch4_domain_average"
          /\ fs \in InletFiles("CH4", "inletFuel", {ScalarVal(Rat(2, 5))})
          /\ full_data = PatchTree(Inlets \o <<Leaf(N_outlet, PlainOutlet)>>)
          /\ T_info = NoInfo
          /\ \E names \in SUBSET {"CH4"}, vol \in Optional(Volumes), q \in Integrals :
                /\ integ_data = IntegratedArrays(names, vol, q)
                /\ integ_point \in {NoArrays, [n \in {"CH4"} |-> q]}
       \/ /\ metric \in {"pattern_factor", "temperature_rise"}
          /\ fs \in InletFiles("T", "inletAir", TInletVals)
          /\ full_data = PatchTree(Inlets \o <<Leaf(N_outlet, PlainOutlet)>>)
          /\ T_info \in {NoInfo} \cup {Info(t) : t \in TGrid}
          /\ \E names \in SUBSET {"T"}, vol \in Optional(Volumes), q \in TGrid :
                /\ integ_data = IntegratedArrays(names, vol, q)
                /\ integ_point \in {NoArrays, [n \in {"T"} |-> q]}
    /\ pc = Entry(metric)
    /\ loc = NoLocals
    /\ divs = <<>>
    /\ outcome = NoOutcome
    /\ field_name = ""
    /\ patch_name = ""
    /\ fallback_value = RInt(0)
    /\ rdPc = "idle"
    /\ field_file = NoPath
    /\ patch_data = [k \in {} |-> k]
    /\ value = Unset
    /\ statted = <<>>
    /\ rdOut = NoOutcome
    /\ MainIdle

Next ==
    \/ CE_Inlet
    \/ CE_Region
    \/ CE_Block
    \/ CE_Array
    \/ CE_Integrate
    \/ CE_OutletAverage
    \/ CE_Return
    \/ DA_Integrate
    \/ DA_Return
    \/ PF_Range
    \/ PF_Integrate
    \/ PF_VolumeAverage
    \/ PF_Inlet
    \/ PF_Return
    \/ TR_Range
    \/ TR_Integrate
    \/ TR_VolumeAverage
    \/ TR_Inlet
    \/ TR_Return

Spec == Init /\ [][Next]_vars

\* ------------------------------------------------------------------- main

\* The case directory is invoked on at most MaxRuns times in a row.
MaxRuns == 2

\* The time steps a case may hold; a reader reports an increasing series.
TimePoints == <<RInt(0), Rat(1, 10), Rat(1, 4), Rat(1, 2)>>
SeriesOf(S) ==
    [k \in 1..Cardinality(S) |->
        TimePoints[CHOOSE i \in S : Cardinality({j \in S : j <= i}) = k]]
Series == {SeriesOf(S) : S \in SUBSET (1..Len(TimePoints))}

T_02 == <<"0", ".", "2">>
T_05 == <<"0", ".", "5">>
T_0125 == <<"0", ".", "1", "2", "5">>
T_05000005 == <<"0", ".", "5", "0", "0", "0", "0", "0", "5">>
T_abc == <<"a", "b", "c">>
TimeTexts == {T_02, T_05, T_0125, T_05000005, T_abc}
TimeArgs ==
    {N_time_flag \o t : t \in TimeTexts} \cup {<<"-", "t", "=">> \o T_02}

MetricArgs == Metrics \cup {"pressure_loss"}

\* sys.argv[1:]: one to four arguments.
ArgLists ==
    {<<"case">>}
        \cup {<<"case", m>> : m \in MetricArgs}
        \cup {<<"case", m, t>> : m \in MetricArgs, t \in TimeArgs}
        \cup {<<"case", "pattern_factor", <<"-", "-", "t", "i", "m", "e">>, T_02>>}

\* What an existing case directory holds next to its constant directory.
Layouts == {{N_constant} \cup S : S \in SUBSET {N_processor0, N_case_foam}}

\* The boundary-condition files of the field read by an evaluator: no file,
\* a file without boundaryField, without the patch, without a key under the
\* patch, or with one of the given values.
MainBcContents(patch, vals) ==
    {[k \in {} |-> k],
     [k \in {"boundaryField"} |-> [q \in Patches \ {patch} |-> OtherEntry]],
     [k \in {"boundaryField"} |-> [q \in {patch} |-> [key \in {} |-> Unset]]]}
        \cup {[k \in {"boundaryField"} |-> [q \in {patch} |-> [key \in {"value"} |-> v]]] :
                v \in vals}
MainBcFiles(field, patch, vals) ==
    {MkFs(field, o, {}, {}) : o \in Optional(MainBcContents(patch, vals))}

MeshInput(files, tree, info, integrated) ==
    [fs |-> files, full_data |-> tree, T_info |-> info, integ_data |-> integrated]

\* What the opened case hands to the evaluator of metric m.
MainInputs(m) ==
    CASE m = "combustion_efficiency" ->
            {MeshInput(f, t, NoInfo, NoArrays) :
                f \in MainBcFiles("CH4", "inletFuel", CH4InletVals),
                t \in {PatchTree(Inlets \o <<Leaf(N_outlet, PlainOutlet)>>),
                       PatchTree(Inlets)}}
      [] m = "ch4_domain_average" ->
            {MeshInput(MkFs("CH4", {}, {}, {}), PatchTree(Inlets), NoInfo,
                       IntegratedArrays({"CH4"}, {v}, RInt(1))) :
                v \in {RInt(0), RInt(2)}}
      [] OTHER ->
            {MeshInput(f, PatchTree(Inlets), i,
                       IntegratedArrays({"T"}, {RInt(2)}, RInt(700))) :
                f \in MainBcFiles("T", "inletAir", TInletVals),
                i \in {NoInfo, Info(RInt(400))}}

InitMain ==
    /\ FOAMLIB_AVAILABLE \in BOOLEAN
    /\ fs = MkFs("CH4", {}, {}, {})
    /\ field_name = ""
    /\ patch_name = ""
    /\ fallback_value = RInt(0)
    /\ rdPc = "idle"
    /\ field_file = NoPath
    /\ patch_data = [k \in {} |-> k]
    /\ value = Unset
    /\ statted = <<>>
    /\ rdOut = NoOutcome
    /\ metric = "none"
    /\ pc = "idle"
    /\ MeshRegions = <<>>
    /\ full_data = <<>>
    /\ T_info = NoInfo
    /\ integ_data = NoArrays
    /\ integ_point = NoArrays
    /\ loc = NoLocals
    /\ divs = <<>>
    /\ outcome = NoOutcome
    /\ argv \in ArgLists
    /\ caseExists \in BOOLEAN
    /\ caseFiles \in IF caseExists THEN Layouts ELSE {{}}
    /\ caseFiles0 = caseFiles
    /\ touched = <<>>
    /\ opened = NoName
    /\ requested_time = PyNone
    /\ time_values = <<>>
    /\ use_time = PyNone
    /\ stdout = <<>>
    /\ stderr = <<>>
    /\ exitCode = -1
    /\ mainPc = "args"
    /\ invocation = 1

evalFrame == <<caseVars, readerVars, meshVars, evalVars>>

\* sys.exit(code), and the end of main (code 0).
Exit(code) ==
    /\ mainPc' = "exited"
    /\ exitCode' = code

MainGoto(next) ==
    /\ mainPc' = next
    /\ UNCHANGED exitCode

\* Except that ends the process with status 0.
Except_ExitZero(e) ==
    /\ stderr' = stderr \o ErrorLines(e)
    /\ Exit(0)

\* Lines 488-492: the handler of every Exception raised in main's body.
Except(e) ==
    /\ stderr' = stderr \o ErrorLines(e)
    /\ Exit(1)

\* Lines 404-417.
M_Args ==
    /\ mainPc = "args"
    /\ IF BadArgCount(argv)
       THEN stderr' = stderr \o UsageLines /\ Exit(1)
       ELSE MainGoto("time") /\ UNCHANGED stderr
    /\ UNCHANGED <<evalFrame, dirVars, invocation, argv, opened, requested_time, time_values,
                   use_time, stdout>>

\* Lines 419-429.
M_Time ==
    /\ mainPc = "time"
    /\ IF Len(argv) + 1 = 4
       THEN LET p == ParseTimeArg(argv[3])
            IN  IF p.exits
                THEN Exit(1) /\ UNCHANGED <<stderr, requested_time>>
                ELSE IF p.out.kind = "raise"
                     THEN Except(p.out) /\ UNCHANGED requested_time
                     ELSE /\ requested_time' = p.out.val
                          /\ MainGoto("casedir")
                          /\ UNCHANGED stderr
       ELSE MainGoto("casedir") /\ UNCHANGED <<stderr, requested_time>>
    /\ UNCHANGED <<evalFrame, dirVars, invocation, argv, opened, time_values, use_time, stdout>>

\* Lines 431-432.
M_CaseDir ==
    /\ mainPc = "casedir"
    /\ IF CaseDirMissing(caseExists)
       THEN Except(RaiseMsg("FileNotFoundError", "Case directory does not exist"))
       ELSE MainGoto("metric") /\ UNCHANGED stderr
    /\ UNCHANGED <<evalFrame, dirVars, invocation, argv, opened, requested_time, time_values,
                   use_time, stdout>>

\* Lines 434-435.
M_Metric ==
    /\ mainPc = "metric"
    /\ IF UnknownMetric(argv[2])
       THEN Except(RaiseWith("ValueError", "Unknown metric", MetricNames))
       ELSE MainGoto("open") /\ UNCHANGED stderr
    /\ UNCHANGED <<evalFrame, dirVars, invocation, argv, opened, requested_time, time_values,
                   use_time, stdout>>

\* Lines 437-448: the reader is opened on the directory of a decomposed
\* case, and else on the marker file, created when it is absent.  touch()
\* in a directory that does not exist raises FileNotFoundError.
M_Open ==
    /\ mainPc = "open"
    /\ IF ProcessorDirs(caseFiles) # {}
       THEN /\ opened' = <<"c", "a", "s", "e">>
            /\ MainGoto("times")
            /\ UNCHANGED <<caseFiles, touched, stderr>>
       ELSE IF MarkerNeeded(caseFiles)
            THEN IF ~caseExists
                 THEN /\ Except(Raise("FileNotFoundError"))
                      /\ UNCHANGED <<caseFiles, touched, opened>>
                 ELSE /\ caseFiles' = caseFiles \cup {N_case_foam}
                      /\ touched' = Append(touched, <<N_case_foam, invocation>>)
                      /\ opened' = N_case_foam
                      /\ MainGoto("times")
                      /\ UNCHANGED stderr
            ELSE /\ opened' = N_case_foam
                 /\ MainGoto("times")
                 /\ UNCHANGED <<caseFiles, touched, stderr>>
    /\ UNCHANGED <<evalFrame, caseExists, caseFiles0, invocation, argv, requested_time,
                   time_values, use_time, stdout>>

\* Lines 450-463: the regions are selected and the reader reports the time
\* steps of the case.
M_Times ==
    /\ mainPc = "times"
    /\ MeshRegions' = MainMeshRegions
    /\ \E series \in Series :
        /\ time_values' = series
        /\ IF NoTimeSteps(series)
           THEN Except(RaiseMsg("ValueError", "No time steps found in case"))
           ELSE MainGoto("select") /\ UNCHANGED stderr
    /\ UNCHANGED <<caseVars, readerVars, evalVars, full_data, T_info, integ_data,
                   integ_point,
                   dirVars, invocation, argv, opened, requested_time, use_time,
                   stdout>>

\* Lines 465-480.
M_Select ==
    /\ mainPc = "select"
    /\ LET sel == SelectTime(time_values, requested_time)
       IN  /\ use_time' = PyFloat(sel.use)
           /\ stderr' = IF sel.warn THEN stderr \o WarningLines ELSE stderr
    /\ MainGoto("call")
    /\ UNCHANGED <<evalFrame, dirVars, invocation, argv, opened, requested_time, time_values,
                   stdout>>

\* Line 483: the evaluator is looked up (KeyError for a name that is no
\* key) and entered on what the reader holds at the selected time.
M_Call ==
    /\ mainPc = "call"
    /\ IF UnknownMetric(argv[2])
       THEN /\ Except(Raise("KeyError"))
            /\ UNCHANGED <<metric, pc, fs, full_data, T_info, integ_data>>
       ELSE /\ \E in \in MainInputs(argv[2]) :
                /\ fs' = in.fs
                /\ full_data' = in.full_data
                /\ T_info' = in.T_info
                /\ integ_data' = in.integ_data
            /\ metric' = argv[2]
            /\ pc' = Entry(argv[2])
            /\ MainGoto("eval")
            /\ UNCHANGED stderr
    /\ UNCHANGED <<FOAMLIB_AVAILABLE, readerVars, MeshRegions, integ_point, loc, divs,
                   outcome,
                   dirVars, invocation, argv, opened, requested_time, time_values,
                   use_time, stdout>>

\* Lines 483-492: the evaluator has ended; its value is printed, or its
\* exception handled.
M_Finish ==
    /\ mainPc = "eval"
    /\ pc = "done"
    /\ IF outcome.kind = "return"
       THEN /\ stdout' = stdout \o ResultLines(outcome.val)
            /\ Exit(0)
            /\ UNCHANGED stderr
       ELSE Except(outcome) /\ UNCHANGED stdout
    /\ UNCHANGED <<evalFrame, dirVars, invocation, argv, opened, requested_time, time_values,
                   use_time>>

\* The script is invoked again on the same case directory: a new process.
M_Invoke ==
    /\ mainPc = "exited"
    /\ invocation < MaxRuns
    /\ invocation' = invocation + 1
    /\ argv' \in ArgLists
    /\ fs' = MkFs("CH4", {}, {}, {})
    /\ metric' = "none"
    /\ pc' = "idle"
    /\ MeshRegions' = <<>>
    /\ full_data' = <<>>
    /\ T_info' = NoInfo
    /\ integ_data' = NoArrays
    /\ loc' = NoLocals
    /\ divs' = <<>>
    /\ outcome' = NoOutcome
    /\ opened' = NoName
    /\ requested_time' = PyNone
    /\ time_values' = <<>>
    /\ use_time' = PyNone
    /\ stdout' = <<>>
    /\ stderr' = <<>>
    /\ exitCode' = -1
    /\ mainPc' = "args"
    /\ UNCHANGED <<FOAMLIB_AVAILABLE, readerVars, dirVars, integ_point>>

NextMain ==
    \/ M_Args
    \/ M_Time
    \/ M_CaseDir
    \/ M_Metric
    \/ M_Open
    \/ M_Times
    \/ M_Select
    \/ M_Call
    \/ M_Finish
    \/ M_Invoke
    \/ Next

SpecMain == InitMain /\ [][NextMain]_vars


\* ------------------------------------------ claims: read_boundary_condition

RdOrig == <<"0.orig", field_name>>
RdLive == <<"0", field_name>>
\* The content of the file the reader is to use, when there is one.
RdHasFile == RdOrig \in DOMAIN fs \/ RdLive \in DOMAIN fs
RdContent == IF RdOrig \in DOMAIN fs THEN fs[RdOrig] ELSE fs[RdLive]
RdHasRegion ==
    /\ RdHasFile
    /\ "boundaryField" \in DOMAIN RdContent
    /\ patch_name \in DOMAIN RdContent["boundaryField"]
RdEntry == RdContent["boundaryField"][patch_name]
RdFallback == Return(PyFloat(fallback_value))

\* C6 (as claimed): read_boundary_condition never raises and always returns
\* a float, whatever the availability of foamlib, the files present, the
\* regions and keys in them and the shape of the stored value.
C6_AlwaysReturnsFloat ==
    rdPc = "done" => rdOut.kind = "return" /\ rdOut.val.t = "float"

\* C7: the result is exactly the fallback when the field file is missing
\* from both 0.orig and 0, when the region is no key of the boundaryField
\* section, and when the region entry has neither 'value' nor 'inletValue'.
C7_MissingYieldsFallback ==
    rdPc = "done" =>
        /\ ~RdHasFile => rdOut = RdFallback
        /\ (RdHasFile /\ "boundaryField" \in DOMAIN RdContent
                /\ patch_name \notin DOMAIN RdContent["boundaryField"])
            => rdOut = RdFallback
        /\ (RdHasRegion /\ DOMAIN RdEntry \cap Keys = {}) => rdOut = RdFallback

C7_Witness ==
    /\ rdPc = "done"
    /\ FOAMLIB_AVAILABLE
    /\ RdHasRegion
    /\ DOMAIN RdEntry = {}
    /\ fallback_value = RInt(300)
    /\ rdOut = Return(PyFloat(RInt(300)))

\* C8: with both keys in the region entry the value is taken from 'value';
\* 'inletValue' is taken only when 'value' is absent.
C8_ValuePreferred ==
    /\ (rdPc = "extract" /\ "value" \in DOMAIN RdEntry)
        => value = RdEntry["value"]
    /\ (rdPc = "extract" /\ "value" \notin DOMAIN RdEntry)
        => "inletValue" \in DOMAIN RdEntry /\ value = RdEntry["inletValue"]
    /\ (rdPc = "done" /\ FOAMLIB_AVAILABLE /\ RdHasRegion
            /\ "value" \in DOMAIN RdEntry)
        => rdOut = ExceptHandler(ExtractValue(RdEntry["value"]), fallback_value)

C8_Witness ==
    /\ rdPc = "done"
    /\ FOAMLIB_AVAILABLE
    /\ RdHasRegion
    /\ DOMAIN RdEntry = Keys
    /\ RdEntry["value"] = ScalarVal(Rat(2, 5))
    /\ RdEntry["inletValue"] = ScalarVal(RInt(350))
    /\ rdOut = Return(PyFloat(Rat(2, 5)))

\* C9: the file under 0.orig is the one read whenever it exists; the file
\* under 0 is looked at only when the 0.orig file does not exist; and with
\* the 0.orig file there, the result is the one the case gives with the
\* file under 0 removed.
C9_OrigPreferred ==
    /\ (\E i \in 1..Len(statted) : statted[i] = RdLive) => RdOrig \notin DOMAIN fs
    /\ (rdPc \in {"open", "select", "extract"} /\ RdOrig \in DOMAIN fs)
        => field_file = RdOrig
    /\ (rdPc = "done" /\ RdOrig \in DOMAIN fs)
        => rdOut = read_boundary_condition(FOAMLIB_AVAILABLE,
                        [p \in DOMAIN fs \ {RdLive} |-> fs[p]],
                        field_name, patch_name, fallback_value)

C9_Witness ==
    /\ rdPc = "done"
    /\ FOAMLIB_AVAILABLE
    /\ RdOrig \in DOMAIN fs
    /\ RdLive \in DOMAIN fs
    /\ "boundaryField" \in DOMAIN fs[RdOrig]
    /\ patch_name \notin DOMAIN fs[RdOrig]["boundaryField"]
    /\ "boundaryField" \in DOMAIN fs[RdLive]
    /\ patch_name \in DOMAIN fs[RdLive]["boundaryField"]
    /\ fs[RdLive]["boundaryField"][patch_name] = LiveEntry
    /\ rdOut = RdFallback

Divided(site) == \E i \in 1..Len(divs) : divs[i].site = site
Done(m) == metric = m /\ pc = "done"
\* The evaluator has computed its average and read a numeric inlet value.
PF_Compared == loc.T_avg.t = "float" /\ loc.T_inlet.t = "float"

\* C1: get_pattern_factor returns exactly 999.0 whenever T_avg <= T_inlet,
\* for every T_max, without dividing by T_avg - T_inlet; when
\* T_avg > T_inlet it returns (T_max - T_avg) / (T_avg - T_inlet).
C1_PatternFactorPenalty ==
    (Done("pattern_factor") /\ PF_Compared) =>
        IF RLe(loc.T_avg.v, loc.T_inlet.v)
        THEN outcome = Return(PyFloat(RInt(999))) /\ ~Divided("PF")
        ELSE outcome = Return(PyFloat(RQuot(RSub(loc.T_max.v, loc.T_avg.v),
                                            RSub(loc.T_avg.v, loc.T_inlet.v))))

C1_Witness ==
    /\ Done("pattern_factor")
    /\ loc.T_avg = PyFloat(RInt(300))
    /\ loc.T_inlet = PyFloat(RInt(300))
    /\ loc.T_max = PyFloat(RInt(400))
    /\ outcome = Return(PyFloat(RInt(999)))

\* C2: get_temperature_rise_efficiency returns exactly 0.0 whenever
\* T_max <= T_inlet, for every T_avg, without dividing by T_max - T_inlet;
\* when T_max > T_inlet it returns (T_avg - T_inlet) / (T_max - T_inlet).
C2_TemperatureRiseFloor ==
    (Done("temperature_rise") /\ PF_Compared) =>
        IF RLe(loc.T_max.v, loc.T_inlet.v)
        THEN outcome = Return(PyFloat(RInt(0))) /\ ~Divided("eta_T")
        ELSE outcome = Return(PyFloat(RQuot(RSub(loc.T_avg.v, loc.T_inlet.v),
                                            RSub(loc.T_max.v, loc.T_inlet.v))))

C2_Witness ==
    /\ Done("temperature_rise")
    /\ loc.T_max = PyFloat(RInt(300))
    /\ loc.T_inlet = PyFloat(RInt(300))
    /\ loc.T_avg = PyFloat(RInt(350))
    /\ outcome = Return(PyFloat(RInt(0)))

\* The measure an evaluator has read: the outlet area, the domain volume.
MeasureSites == {"ch4_outlet", "ch4_avg", "T_avg"}
Measure == IF metric = "combustion_efficiency" THEN loc.area ELSE loc.volume

\* C3: in all four evaluators a measure (outlet area, domain volume) that
\* is 0 or negative makes the evaluator raise an error, and no division by
\* the measure is ever executed with a measure <= 0.
C3_MeasureGuard ==
    /\ \A i \in 1..Len(divs) :
          divs[i].site \in MeasureSites =>
              divs[i].divisor = Measure /\ RLt(RInt(0), divs[i].divisor.v)
    /\ (pc = "done" /\ Measure.t = "float" /\ RLe(Measure.v, RInt(0)))
          => outcome.kind = "raise" /\ outcome.exc = "ValueError"
    /\ (pc = "done" /\ metric # "combustion_efficiency"
            /\ "Volume" \in DOMAIN integ_data
            /\ RLe(integ_data["Volume"], RInt(0)))
          => outcome.kind = "raise" /\ outcome.exc = "ValueError"

C3_Witness ==
    /\ Done("combustion_efficiency")
    /\ loc.area = PyFloat(RInt(0))
    /\ outcome = RaiseMsg("ValueError", "Invalid outlet area")
    /\ divs = <<>>

\* The evaluator has read a positive outlet area and a numeric inlet value.
CE_Averaged ==
    /\ loc.area.t = "float"
    /\ RLt(RInt(0), loc.area.v)
    /\ loc.ch4_inlet.t = "float"

\* C4 (as claimed): for every outlet integral I, outlet area A > 0 and
\* fuel-inlet boundary value C_inlet, get_combustion_efficiency returns
\* 1 - ((I / A) / C_inlet); I = 2, A = 10, C_inlet = 0.4 gives 0.5.
C4_EfficiencyFormula ==
    (Done("combustion_efficiency") /\ CE_Averaged) =>
        /\ outcome.kind = "return"
        /\ ~RIsZero(loc.ch4_inlet.v) =>
              outcome.val = PyFloat(RSub(RInt(1),
                                RQuot(RQuot(loc.ch4_integrated.v, loc.area.v),
                                      loc.ch4_inlet.v)))
        /\ (loc.ch4_integrated.v = RInt(2) /\ loc.area.v = RInt(10)
                /\ loc.ch4_inlet.v = Rat(2, 5))
              => outcome.val = PyFloat(Rat(1, 2))

\* C5 (as claimed): with a positive outlet area and a fuel-inlet boundary
\* value read, the combustion efficiency is at most 1, and is exactly 1.0
\* when the outlet concentration integral / area is 0.
C5_EfficiencyAtMostOne ==
    (Done("combustion_efficiency") /\ CE_Averaged) =>
        /\ outcome.kind = "return" =>
              outcome.val.t = "float" /\ RLe(outcome.val.v, RInt(1))
        /\ RIsZero(loc.ch4_integrated.v) => outcome = Return(PyFloat(RInt(1)))

\* ------------------------------------------------------------ claims: main

Exited == mainPc = "exited"
\* The evaluator was entered by this invocation.
Invoked == pc # "idle"

\* The file read_boundary_condition reads for a field, if there is one.
BcSource(field) ==
    IF <<"0.orig", field>> \in DOMAIN fs THEN {fs[<<"0.orig", field>>]}
    ELSE IF <<"0", field>> \in DOMAIN fs THEN {fs[<<"0", field>>]}
    ELSE {}
\* The lookup of (field, patch) fails: no foamlib, no file, no boundaryField,
\* no such region, or neither key under the region.
LookupFails(field, patch) ==
    \/ ~FOAMLIB_AVAILABLE
    \/ \A c \in BcSource(field) :
          \/ "boundaryField" \notin DOMAIN c
          \/ patch \notin DOMAIN c["boundaryField"]
          \/ DOMAIN c["boundaryField"][patch] \cap Keys = {}

\* The errors of the evaluators' structural checks are ValueErrors.
StructuralError == outcome.kind = "raise" /\ outcome.exc = "ValueError"
\* The invocation ends as its evaluator did: exit 0 with the returned value
\* on standard output, or exit 1 for the exception.
EndsAs(val) ==
    /\ outcome = Return(PyFloat(val))
    /\ exitCode = 0
    /\ stdout = ResultLines(PyFloat(val))

\* C11: a failed boundary-condition lookup (no foamlib, missing file, missing
\* boundaryField, missing region, missing key) never makes the invocation
\* exit 1.  combustion_efficiency continues with C_inlet = 0.1561, and
\* pattern_factor and temperature_rise with T_inlet = 300.0; the invocation
\* ends with the value computed from that constant (exit 0, the value on
\* standard output), and exits 1 only for a structural error of the mesh.
C11_LookupFailureAbsorbed ==
    /\ (metric = "combustion_efficiency" /\ LookupFails("CH4", "inletFuel")) =>
          /\ pc \notin {"idle", "ce_inlet"} => loc.ch4_inlet = PyFloat(Rat(1561, 10000))
          /\ (Exited /\ Invoked) =>
                \/ StructuralError /\ exitCode = 1
                \/ EndsAs(RSub(RInt(1), RQuot(loc.ch4_outlet.v, Rat(1561, 10000))))
    /\ (metric = "pattern_factor" /\ LookupFails("T", "inletAir")) =>
          /\ pc = "pf_factor" => loc.T_inlet = PyFloat(RInt(300))
          /\ (Exited /\ Invoked) =>
                \/ StructuralError /\ exitCode = 1
                \/ /\ loc.T_inlet = PyFloat(RInt(300))
                   /\ IF RLe(loc.T_avg.v, RInt(300))
                      THEN EndsAs(RInt(999))
                      ELSE EndsAs(RQuot(RSub(loc.T_max.v, loc.T_avg.v),
                                        RSub(loc.T_avg.v, RInt(300))))
    /\ (metric = "temperature_rise" /\ LookupFails("T", "inletAir")) =>
          /\ pc = "tr_rise" => loc.T_inlet = PyFloat(RInt(300))
          /\ (Exited /\ Invoked) =>
                \/ StructuralError /\ exitCode = 1
                \/ /\ loc.T_inlet = PyFloat(RInt(300))
                   /\ IF RLe(loc.T_max.v, RInt(300))
                      THEN EndsAs(RInt(0))
                      ELSE EndsAs(RQuot(RSub(loc.T_avg.v, RInt(300)),
                                        RSub(loc.T_max.v, RInt(300))))

\* The fuel-inlet file exists but has no inletFuel region, and the
\* invocation ended with the efficiency computed from 0.1561.
C11_Witness ==
    /\ Exited
    /\ metric = "combustion_efficiency"
    /\ FOAMLIB_AVAILABLE
    /\ \E c \in BcSource("CH4") :
          "boundaryField" \in DOMAIN c /\ "inletFuel" \notin DOMAIN c["boundaryField"]
    /\ exitCode = 0
    /\ stdout = ResultLines(PyFloat(RSub(RInt(1), RQuot(Rat(1, 5), Rat(1561, 10000)))))

\* The time step was selected (line 474 or 477 was executed).
Selected == use_time.t = "float"
Requested == requested_time.t = "float"
Warned == \E i \in 1..Len(stderr) : stderr[i].tag = "warning"
\* |t - requested_time|
Distance(t) == RAbs(RSub(t, requested_time.v))
LastTime == time_values[Len(time_values)]

\* C12: with a --time request r and a non-empty series, the selected time is
\* an entry of the series at the least distance from r; the warning is on
\* standard error if and only if that distance exceeds 1e-6; the mismatch is
\* no error (the evaluator is invoked, and the invocation exits 1 only if the
\* evaluator raised).  For [0.0, 0.1, 0.25, 0.5] and r = 0.2 the selected
\* time is 0.25, with a warning.
C12_ClosestTimeSelected ==
    (Selected /\ Requested) =>
        /\ \E i \in 1..Len(time_values) : time_values[i] = use_time.v
        /\ \A i \in 1..Len(time_values) :
              RLe(Distance(use_time.v), Distance(time_values[i]))
        /\ Warned <=> RLt(Rat(1, 1000000), Distance(use_time.v))
        /\ Exited =>
              /\ Invoked /\ pc = "done"
              /\ exitCode = 1 <=> outcome.kind = "raise"
              /\ exitCode = 0 <=> outcome.kind = "return"
        /\ (time_values = <<RInt(0), Rat(1, 10), Rat(1, 4), Rat(1, 2)>>
                /\ requested_time.v = Rat(1, 5)) =>
              use_time.v = Rat(1, 4) /\ Warned

\* The example of the claim, ended with the metric computed.
C12_Witness ==
    /\ Exited
    /\ time_values = <<RInt(0), Rat(1, 10), Rat(1, 4), Rat(1, 2)>>
    /\ requested_time = PyFloat(Rat(1, 5))
    /\ use_time = PyFloat(Rat(1, 4))
    /\ Warned
    /\ exitCode = 0

\* A request within the tolerance of an entry but not equal to it.
C12_WitnessWithinTolerance ==
    /\ Selected /\ Requested
    /\ ~RIsZero(Distance(use_time.v))
    /\ ~Warned

\* C13: for a non-empty increasing series, omitting --time selects the last
\* entry, and requesting the value of the last entry selects the same time,
\* without a warning.
C13_DefaultIsLatest ==
    Selected =>
        /\ ~Requested => (use_time.v = LastTime /\ ~Warned)
        /\ (Requested /\ requested_time.v = LastTime) =>
              (use_time.v = LastTime /\ ~Warned)

\* A series of several entries whose last entry was requested and selected.
C13_Witness ==
    /\ Selected /\ Requested
    /\ Len(time_values) >= 2
    /\ requested_time.v = LastTime
    /\ use_time.v = LastTime

\* The same series without a request.
C13_WitnessDefault ==
    /\ Selected /\ ~Requested
    /\ Len(time_values) >= 2
    /\ use_time.v = LastTime

\* The reader was opened and reported an empty series of time steps.
TimesEmpty == opened # NoName /\ mainPc # "times" /\ time_values = <<>>

\* C14: an invocation whose case directory does not exist, or whose reader
\* reports an empty time series, ends with exit 1 and never enters an
\* evaluator; for the empty series this holds with and without --time.
C14_NoCaseOrNoTimesFails ==
    /\ ~caseExists => (~Invoked /\ (Exited => exitCode = 1))
    /\ TimesEmpty => (~Invoked /\ Exited /\ exitCode = 1)

\* A case with no time steps, invoked with a parsable --time request.
C14_Witness ==
    /\ TimesEmpty
    /\ Requested
    /\ Exited
    /\ exitCode = 1
    /\ stderr = ErrorLines(RaiseMsg("ValueError", "No time steps found in case"))

\* A case directory that does not exist, invoked with a known metric.
C14_WitnessNoCase ==
    /\ ~caseExists
    /\ Exited
    /\ exitCode = 1
    /\ stderr = ErrorLines(RaiseMsg("FileNotFoundError",
                                    "Case directory does not exist"))

\* A case with no time steps, invoked without --time.
C14_WitnessDefault ==
    /\ TimesEmpty
    /\ Len(argv) = 2
    /\ Exited
    /\ exitCode = 1

\* C15: a successful invocation (its evaluator returned) exits 0 with exactly
\* one line on standard output, the scalar the evaluator returned; standard
\* output holds nothing on any other path.
C15_SingleValueLine ==
    /\ (Exited /\ outcome.kind = "return") => exitCode = 0
    /\ (Exited /\ exitCode = 0) =>
          /\ outcome.kind = "return"
          /\ outcome.val.t = "float"
          /\ Len(stdout) = 1
          /\ stdout[1].tag = "value"
          /\ stdout[1].val = outcome.val
    /\ stdout # <<>> => (Exited /\ exitCode = 0)

\* ch4_domain_average of integral 1 over volume 2, printed.
C15_Witness ==
    /\ Exited
    /\ exitCode = 0
    /\ metric = "ch4_domain_average"
    /\ Len(stdout) = 1
    /\ stdout[1].val = PyFloat(Rat(1, 2))
    /\ stderr = <<>>

HasLine(stream, tags) == \E i \in 1..Len(stream) : stream[i].tag \in tags

\* C16: every failing invocation exits with code 1, has an error line (the
\* usage text counted as one) and a diagnostic trace on standard error, and
\* leaves standard output empty.
C16_FailureReported ==
    (Exited /\ exitCode # 0) =>
        /\ exitCode = 1
        /\ HasLine(stderr, {"error", "usage"})
        /\ HasLine(stderr, {"traceback"})
        /\ stdout = <<>>

HasMetricName == Len(argv) >= 2
NameUnknown == HasMetricName /\ argv[2] \notin Metrics
ListsMetricNames ==
    \E i \in 1..Len(stderr) :
        /\ stderr[i].tag \in {"error", "available"}
        /\ stderr[i].payload =
              <<"combustion_efficiency", "ch4_domain_average", "pattern_factor",
                "temperature_rise">>

\* C17 as stated: every invocation with an unknown metric name exits 1 with an
\* error that lists the valid metric names, whatever the other arguments
\* and whether or not the case directory exists.
C17_UnknownMetricAlwaysListed ==
    (Exited /\ NameUnknown) => (exitCode = 1 /\ ListsMetricNames)

\* C17, amended: every invocation with an unknown metric name exits 1
\* without opening the case or entering an evaluator; the error lists the
\* valid metric names when the argument count is accepted, the optional
\* fourth argument is a parsable --time=<float> and the case directory
\* exists.  A failure of one of these earlier checks is reported instead,
\* without the list.
C17_UnknownMetricRejected ==
    NameUnknown =>
        /\ ~Invoked
        /\ opened = NoName
        /\ Exited => exitCode = 1
        /\ (Exited /\ Len(argv) \in {2, 3} /\ (Len(argv) = 3 => Requested)
                /\ caseExists) =>
              /\ ListsMetricNames
              /\ stderr[1].tag = "error"
              /\ stderr[1].exc = "ValueError"
              /\ stderr[1].msg = "Unknown metric"
        /\ (Exited /\ ~caseExists /\ Len(argv) = 2) => ~ListsMetricNames

\* An unknown name with a parsable time and an existing case directory.
C17_Witness ==
    /\ Exited
    /\ NameUnknown
    /\ Len(argv) = 3
    /\ Requested
    /\ caseExists
    /\ exitCode = 1
    /\ ListsMetricNames

\* The case was decomposed before the first invocation.
Decomposed ==
    \E n \in caseFiles0 :
        Len(n) >= 9 /\ SubSeq(n, 1, 9) = <<"p", "r", "o", "c", "e", "s", "s", "o", "r">>
Marker == <<"c", "a", "s", "e", ".", "f", "o", "a", "m">>

\* C18: over any number of invocations on a case directory, a reconstructed
\* case holds the marker case.foam once it was opened, the marker is created
\* only if it was absent and at most once, and nothing else is created; in a
\* decomposed case nothing is ever created.
C18_MarkerIdempotent ==
    /\ caseFiles0 \subseteq caseFiles
    /\ caseFiles \ caseFiles0 \subseteq {Marker}
    /\ Len(touched) <= 1
    /\ \A i \in 1..Len(touched) : touched[i][1] = Marker
    /\ touched # <<>> => (Marker \notin caseFiles0 /\ ~Decomposed)
    /\ Decomposed => (caseFiles = caseFiles0 /\ touched = <<>>)
    /\ (opened # NoName /\ ~Decomposed) => (Marker \in caseFiles /\ opened = Marker)
    /\ (opened # NoName /\ Decomposed) => opened # Marker

\* The second invocation has opened a reconstructed case whose marker the
\* first invocation created.
C18_Witness ==
    /\ invocation = 2
    /\ opened = Marker
    /\ ~Decomposed
    /\ Marker \notin caseFiles0
    /\ Marker \in caseFiles
    /\ touched = <<<<Marker, 1>>>>

\* A decomposed case without marker, opened by a second invocation.
C18_WitnessDecomposed ==
    /\ invocation = 2
    /\ opened # NoName
    /\ Decomposed
    /\ Marker \notin caseFiles

\* ------------------------------------------------ claims: the outlet lookup

NamesOutlet(b) == b.meta /\ Contains(<<"o", "u", "t", "l", "e", "t">>, Lower(b.name))
\* The blocks of a tree: the top-level ones and those inside a container.
BlocksOf(tree) ==
    {tree[i] : i \in 1..Len(tree)}
        \cup UNION {{tree[i].subs[j] : j \in 1..Len(tree[i].subs)} :
                    i \in 1..Len(tree)}
TopLevelNames(tree) == [i \in 1..Len(tree) |-> BlockName(tree[i])]
\* The lookup of lines 127-169 has been executed.
LookedUp ==
    metric = "combustion_efficiency" /\ pc \notin {"idle", "ce_inlet", "ce_region", "ce_block"}
RegionNotFound ==
    /\ outcome.kind = "raise"
    /\ outcome.msg \in {"Outlet patch not found", "Could not find outlet block"}

\* C19: for every fetched tree that holds a block, top-level or inside a
\* container, whose name contains 'outlet' in any letter case, the lookup of
\* get_combustion_efficiency finds a region and does not fail.
C19_OutletFoundAtBothLevels ==
    (LookedUp /\ \E b \in BlocksOf(full_data) : b.kind # "null" /\ NamesOutlet(b)) =>
        (~RegionNotFound /\ loc.outlet_block.kind # "null")

\* C20: whenever no block of the tree matches the outlet,
\* get_combustion_efficiency fails with an error that carries the list of
\* the names of all top-level blocks of the tree.
C20_NotFoundCarriesBlockNames ==
    (LookedUp /\ \A b \in BlocksOf(full_data) : ~NamesOutlet(b)) =>
        /\ RegionNotFound
        /\ outcome.payload = TopLevelNames(full_data)

\* --------------------------------------------- claims: the field lookups

Ended(m) == metric = m /\ pc = "done"
FieldNotFound ==
    /\ outcome.kind = "raise"
    /\ outcome.msg \in {"CH4 array not found at outlet",
                        "CH4 array not found in integrated data",
                        "'T' not found in cell data information",
                        "'T' not found in integrated data"}

\* C21: in every evaluator the required field is looked up in cell data and
\* then in point data.  The evaluator ends with a field-not-found error only
\* if the field is absent from both, and a field present only as point data
\* is integrated.
C21_CellThenPoint ==
    /\ (Ended("combustion_efficiency") /\ FieldNotFound) =>
          "CH4" \notin loc.outlet_block.data.cell \cup loc.outlet_block.data.point
    /\ (Ended("ch4_domain_average") /\ FieldNotFound) =>
          "CH4" \notin DOMAIN integ_data \cup DOMAIN integ_point
    /\ (Ended("pattern_factor") /\ FieldNotFound) =>
          "T" \notin DOMAIN integ_data \cup DOMAIN integ_point
    /\ (Ended("temperature_rise") /\ FieldNotFound) =>
          "T" \notin DOMAIN integ_data \cup DOMAIN integ_point

\* ------------------------------------------------ claims: the results

StructuralMessages ==
    {"Outlet patch not found", "Could not find outlet block",
     "CH4 array not found at outlet", "failed to integrate CH4",
     "failed to compute Area", "Invalid outlet area",
     "CH4 array not found in integrated data",
     "Volume array not found in integrated data", "Invalid volume",
     "'T' not found in cell data information", "'T' not found in integrated data"}

\* C22: every evaluation ends in a finite scalar or in a structural error
\* (region not found, field array absent, non-positive measure); for every
\* boundary value read from the case, a fuel-inlet concentration of 0
\* included, no division by zero is executed and no evaluation ends in a
\* ZeroDivisionError.
C22_FiniteOrStructural ==
    /\ \A i \in 1..Len(divs) :
          divs[i].divisor.t = "float" => ~RIsZero(divs[i].divisor.v)
    /\ pc = "done" =>
          \/ outcome.kind = "return" /\ outcome.val.t = "float"
          \/ /\ outcome.kind = "raise"
             /\ outcome.exc = "ValueError"
             /\ outcome.msg \in StructuralMessages

\* C23: whenever get_temperature_rise_efficiency returns, for a positive
\* volume and T_avg <= T_max and every T_inlet (T_avg < T_inlet < T_max
\* included), its result lies in [0, 1].
C23_TemperatureRiseBounded ==
    (Ended("temperature_rise") /\ outcome.kind = "return"
        /\ RLt(RInt(0), loc.volume.v) /\ RLe(loc.T_avg.v, loc.T_max.v)) =>
        /\ outcome.val.t = "float"
        /\ RLe(RInt(0), outcome.val.v)
        /\ RLe(outcome.val.v, RInt(1))

\* ------------------------------------------- claims: the traversal order

\* The positions of a tree: <<i, 0>> is top-level block i and <<i, j>> its
\* sub-block j.  Traversal order is the lexicographic one.
Positions(tree) ==
    {<<i, 0>> : i \in 1..Len(tree)}
        \cup UNION {{<<i, j>> : j \in 1..Len(tree[i].subs)} : i \in 1..Len(tree)}
Before(p, q) == p[1] < q[1] \/ (p[1] = q[1] /\ p[2] < q[2])
BlockAt(tree, p) == IF p[2] = 0 THEN tree[p[1]] ELSE tree[p[1]].subs[p[2]]
\* The block at p is tested by name and matches: a top-level block against
\* the selected region name, a sub-block against 'outlet'.
MatchesAt(tree, p) ==
    LET b == BlockAt(tree, p)
    IN  IF p[2] = 0
        THEN b.meta /\ Contains(Lower(loc.outlet_block_name), Lower(b.name))
        ELSE NamesOutlet(b)
Hits(tree) == {p \in Positions(tree) : MatchesAt(tree, p)}
NonEmptyHits(tree) == {p \in Hits(tree) : BlockAt(tree, p).kind # "null"}

\* C24: the first match in traversal order wins.  The lookup ends at the
\* first non-empty matching block of the traversal (top-level block i, then
\* its sub-blocks in index order, then block i+1), and fails only if there
\* is none; an empty matching sub-block does not end the search of later
\* top-level blocks.
C24_FirstMatchWins ==
    LookedUp =>
        IF NonEmptyHits(full_data) = {}
        THEN RegionNotFound
        ELSE /\ ~RegionNotFound
             /\ \E p \in NonEmptyHits(full_data) :
                   /\ \A q \in NonEmptyHits(full_data) : ~Before(q, p)
                   /\ loc.outlet_block = BlockAt(full_data, p)

\* The first sub-block of top-level block i that matches by name, if any.
FirstSubHit(tree, i) ==
    {p \in Hits(tree) :
        /\ p[1] = i /\ p[2] > 0
        /\ \A q \in Hits(tree) : (q[1] = i /\ q[2] > 0) => ~Before(q, p)}
\* The traversal ends at top-level block i: its name matches, or it is a
\* container whose first matching sub-block is not empty.
EndsAt(tree, i) ==
    \/ MatchesAt(tree, <<i, 0>>)
    \/ /\ tree[i].kind = "multiblock"
       /\ \E p \in FirstSubHit(tree, i) : BlockAt(tree, p).kind # "null"
\* The block taken at the top-level block where the traversal ends.
TakenAt(tree, i) ==
    IF MatchesAt(tree, <<i, 0>>) THEN tree[i]
    ELSE BlockAt(tree, CHOOSE p \in FirstSubHit(tree, i) : TRUE)

\* C24, amended: the first name match in traversal order wins.  Top-level
\* block i is tested by name, then its sub-blocks in index order, before
\* block i+1.  A matching top-level block ends the search, also when it is
\* empty (the lookup then fails); the first matching sub-block of a
\* container ends the search of that container, and ends the whole search
\* only when it is not empty, so an empty matching sub-block hides its
\* later siblings but not the later top-level blocks.
C24_FirstNameMatchWins ==
    LookedUp =>
        LET ends == {i \in 1..Len(full_data) : EndsAt(full_data, i)}
        IN  IF ends = {}
            THEN RegionNotFound
            ELSE LET first == CHOOSE i \in ends : \A k \in ends : i <= k
                     taken == TakenAt(full_data, first)
                 IN  IF taken.kind = "null"
                     THEN RegionNotFound
                     ELSE ~RegionNotFound /\ loc.outlet_block = taken

\* An empty sub-block named after the outlet in the first container, and the
\* outlet found in the second one.
C24_Witness ==
    /\ LookedUp
    /\ Len(full_data) = 2
    /\ full_data[1].kind = "multiblock"
    /\ full_data[1].subs[1].kind = "null"
    /\ NamesOutlet(full_data[1].subs[1])
    /\ full_data[2].kind = "multiblock"
    /\ loc.outlet_block = full_data[2].subs[1]
    /\ ~RegionNotFound

\* Two outlets in one container: the first one is taken.
C24_WitnessTie ==
    /\ LookedUp
    /\ Cardinality(NonEmptyHits(full_data)) = 2
    /\ Len(full_data) = 2
    /\ full_data[2].kind = "multiblock"
    /\ loc.outlet_block = full_data[2].subs[1]
    /\ NamesOutlet(full_data[2].subs[2])

\* ------------------------------------------------- claims: the sentinels

\* The structural checks of pattern_factor and temperature_rise pass: T is
\* in the cell data and in the integrated data, and the volume is positive.
StructureValid ==
    /\ T_info.present
    /\ "T" \in DOMAIN integ_data
    /\ "Volume" \in DOMAIN integ_data
    /\ RLt(RInt(0), integ_data["Volume"])
\* The evaluator returned without dividing by its guarded denominator.
SentinelReturned(m, site) ==
    Ended(m) /\ outcome.kind = "return" /\ ~Divided(site)

\* C25: pattern_factor and temperature_rise return their sentinel (999.0,
\* 0.0) only after every structural check has passed.  A missing T array or
\* a volume <= 0 is fatal whatever the temperatures are, so a sentinel
\* result implies that T was present and the volume positive.
C25_SentinelAfterStructure ==
    /\ SentinelReturned("pattern_factor", "PF") =>
          (StructureValid /\ outcome.val = PyFloat(RInt(999)))
    /\ SentinelReturned("temperature_rise", "eta_T") =>
          (StructureValid /\ outcome.val = PyFloat(RInt(0)))
    /\ (metric \in {"pattern_factor", "temperature_rise"} /\ pc = "done"
            /\ ~StructureValid) =>
          /\ outcome.kind = "raise"
          /\ outcome.exc = "ValueError"
          /\ outcome.msg \in {"'T' not found in cell data information",
                              "'T' not found in integrated data",
                              "Volume array not found in integrated data",
                              "Invalid volume"}
          /\ loc.T_inlet = PyNone

\* temperature_rise ended with the error of the volume although the range
\* maximum of T is not above the inlet temperature 300.0.
C25_Witness ==
    /\ Ended("temperature_rise")
    /\ outcome.kind = "raise"
    /\ outcome.msg = "Invalid volume"
    /\ T_info.present
    /\ RLe(T_info.max, RInt(300))
    /\ BcSource("T") = {}

\* pattern_factor returned the sentinel on valid data.
C25_WitnessSentinel ==
    /\ SentinelReturned("pattern_factor", "PF")
    /\ StructureValid
    /\ outcome.val = PyFloat(RInt(999))

\* ------------------------------------------------- claims: the dispatcher

\* The four validations of lines 413-435, on the arguments and the case of
\* the current invocation.
FailsArgCount == Len(argv) \notin {2, 3}
FailsTime ==
    /\ ~FailsArgCount
    /\ Len(argv) = 3
    /\ LET p == ParseTimeArg(argv[3])
       IN  p.exits \/ p.out.kind = "raise"
FailsCaseDir == ~FailsArgCount /\ ~FailsTime /\ ~caseExists
FailsMetric ==
    /\ ~FailsArgCount /\ ~FailsTime /\ ~FailsCaseDir
    /\ argv[2] \notin Metrics
FailsValidation == FailsArgCount \/ FailsTime \/ FailsCaseDir \/ FailsMetric

\* The invocation has not touched the case: no marker created, no reader
\* opened, no evaluator entered.
CaseUntouched ==
    /\ \A i \in 1..Len(touched) : touched[i][2] # invocation
    /\ opened = NoName
    /\ ~Invoked
    /\ time_values = <<>>
    /\ stdout = <<>>

\* What the process leaves on stderr when it ends at the first failing
\* validation.
ValidationReport ==
    IF FailsArgCount THEN UsageLines
    ELSE IF FailsTime
         THEN IF ParseTimeArg(argv[3]).exits
              THEN <<>>
              ELSE ErrorLines(ParseTimeArg(argv[3]).out)
    ELSE IF FailsCaseDir
         THEN ErrorLines(RaiseMsg("FileNotFoundError", "Case directory does not exist"))
    ELSE ErrorLines(RaiseWith("ValueError", "Unknown metric", MetricNames))

C26_Order ==
    /\ mainPc \in {"args", "time", "casedir", "metric"} => CaseUntouched
    /\ FailsValidation =>
          /\ CaseUntouched
          /\ mainPc \in {"args", "time", "casedir", "metric", "exited"}
          /\ Exited => (exitCode = 1 /\ stderr = ValidationReport)
    /\ (opened # NoName \/ Invoked) => ~FailsValidation
    /\ Invoked => (Selected /\ opened # NoName /\ metric = argv[2])

\* The evaluator is entered from line 483 only, with the time selected, and
\* is not entered again in the same invocation.
C26_Step ==
    /\ (pc = "idle" /\ pc' # "idle") =>
          (mainPc = "call" /\ Selected /\ pc' = Entry(argv[2]))
    /\ (pc # "idle" /\ invocation' = invocation) =>
          /\ pc' # "idle"
          /\ metric' = metric
          /\ pc' = Entry(metric) => pc = pc'

\* C26: main validates in the order argument count, --time argument, case
\* directory, metric name, and touches the case only after all four have
\* passed: an invocation that fails one of them creates no marker file,
\* opens no reader and invokes no evaluator, and ends with the report of the
\* first failing validation.  The evaluator is invoked at most once per
\* invocation, after the time has been selected.
C26_ValidateThenTouch == []C26_Order /\ [][C26_Step]_vars

\* An invocation on an existing reconstructed case without marker ended at
\* the metric name, and the marker is still absent.
C26_Witness ==
    /\ Exited
    /\ FailsMetric
    /\ ~Decomposed
    /\ Marker \notin caseFiles
    /\ CaseUntouched
    /\ stderr = ValidationReport

\* The time argument is rejected although the case directory is missing
\* and the metric unknown as well.
C26_WitnessTimeFirst ==
    /\ Exited
    /\ FailsTime
    /\ ~caseExists
    /\ argv[2] \notin Metrics
    /\ stderr = ValidationReport

\* The evaluator has run to its end in the second invocation.
C26_WitnessInvoked ==
    /\ invocation = 2
    /\ pc = "done"
    /\ Selected

====
